---- MODULE Spec2Model ----
(***************************************************************************)
(* A model of the LUCI Pin SDK:                                            *)
(*   - luci/luci.py, luci/device.py : the LUCI handle (ADB discovery,      *)
(*     hotspot join, IP extraction from interface dumps);                  *)
(*   - examples/record_video.py     : the record script's connection       *)
(*     sequence and the recorder's start/stop pairing;                     *)
(*   - setup_connection/USB_connection/usb_adb_client.py : the GUI file    *)
(*     browser's handlers.                                                 *)
(* Text is modelled as sequences of one-character strings so that the      *)
(* tokenising code (replace, split, count, slicing) is computed and not    *)
(* assumed.  Python's None is the value NoneVal.                           *)
(***************************************************************************)
EXTENDS Integers, Sequences, FiniteSets, TLC

VARIABLES
    \* ---- environment shared by the record script and the LUCI handle
    adbList,        \* device lines of `adb devices` (after the header line)
    wlan,           \* the device's wlan0: [addr, prefix, cmds]
    reachable,      \* IPs whose port 50001 accepts a TCP connection now
    cacheFile,      \* the cached-IP file: NoFile or its text
    cache0,         \* the cached-IP file as the run found it
    netChanges,     \* number of environment changes so far
    \* ---- the LUCI handle (luci/luci.py)
    luci,           \* [device_id, _ip_address], NoLuci when there is none
    lastCall,       \* outcome of the latest call on the handle
    calls,          \* number of calls made on the handle
    \* ---- record script (examples/record_video.py, main)
    pc,             \* position in main
    cached_ip,      \* local cached_ip
    ip,             \* local ip
    err,            \* the exception in flight or that ended main, "" when none
    probes,         \* sequence of [ip, ok]: rtsp_reachable calls of this run
    saved,          \* sequence of IPs passed to save_ip in this run
    prompts,        \* number of input() prompts shown
    adbCalls,       \* number of LUCI.connect_via_adb calls
    rtsp_url,       \* URL handed to RtspRecorder
    starts,         \* recorder.start() calls
    stops,          \* recorder.stop() calls
    interrupted,    \* the places where a KeyboardInterrupt was delivered, in order
    \* ---- file browser (usb_adb_client.py, FileBrowserGUI)
    fs,             \* remote file system: set of existing paths
    current_path,   \* self.current_path
    path_label,     \* text of self.path_label
    tree,           \* rows of self.tree: sequence of [text, path, tag]
    selection,      \* index of the selected row, 0 when nothing is selected
    preview,        \* what self.preview_label shows
    lastOp,         \* what the latest handler did
    confirmed       \* paths whose deletion the user has confirmed

envVars  == <<adbList, wlan, reachable, cacheFile, cache0, netChanges>>
luciVars == <<luci, lastCall, calls>>
mainVars == <<pc, cached_ip, ip, err, probes, saved, prompts, adbCalls,
              rtsp_url, starts, stops, interrupted>>
guiVars  == <<fs, current_path, path_label, tree, selection, preview,
              lastOp, confirmed>>
vars == <<envVars, luciVars, mainVars, guiVars>>

-----------------------------------------------------------------------------
(* Python values                                                           *)

NoneVal == <<"None">>

Truthy(v) == v # NoneVal /\ v # <<>>

\* Python's `a or b` on optional strings
PyOr(a, b) == IF Truthy(a) THEN a ELSE b

-----------------------------------------------------------------------------
(* str methods used by the parsers                                         *)

\* str.isspace() of one character, for the characters up to U+00FF: tab,
\* newline, vertical tab, form feed, carriage return, the separators
\* U+001C..U+001F, space, U+0085 and U+00A0
IsSpace(c) ==
    c \in {"\t", "\n", "", "\f", "\r", "", "", "", "", " ",
          "", " "}

\* str.isdigit() of one character, for the characters up to U+00FF: the
\* ASCII digits and the superscripts two, three and one
IsDigit(c) ==
    c \in {"0", "1", "2", "3", "4", "5", "6", "7", "8", "9",
          "²", "³", "¹"}

\* s.replace(a, b) for one-character a and b
Replace(s, a, b) == [i \in 1..Len(s) |-> IF s[i] = a THEN b ELSE s[i]]

RECURSIVE Sorted(_)
\* the members of a finite set of integers, in increasing order
Sorted(S) ==
    IF S = {} THEN <<>>
    ELSE LET m == CHOOSE x \in S : \A y \in S : x <= y
         IN  <<m>> \o Sorted(S \ {m})

\* s.split(): the whitespace-separated tokens of s, in order
Split(s) ==
    LET first == Sorted({i \in 1..Len(s) :
                    ~IsSpace(s[i]) /\ (i = 1 \/ IsSpace(s[i - 1]))})
        last == Sorted({i \in 1..Len(s) :
                    ~IsSpace(s[i]) /\ (i = Len(s) \/ IsSpace(s[i + 1]))})
    IN  [k \in 1..Len(first) |-> SubSeq(s, first[k], last[k])]

\* s.count(c)
Count(s, c) == Cardinality({i \in 1..Len(s) : s[i] = c})

\* s.startswith(p)
StartsWith(s, p) == Len(s) >= Len(p) /\ SubSeq(s, 1, Len(p)) = p

\* s.split(sep)[0]: the text before the first sep, all of s when there is none
SplitFirst(s, sep) ==
    LET hits == {i \in 1..Len(s) : s[i] = sep}
    IN  IF hits = {} THEN s
        ELSE SubSeq(s, 1, (CHOOSE i \in hits : \A j \in hits : i <= j) - 1)

\* s[k:]
SliceFrom(s, k) == IF k >= Len(s) THEN <<>> ELSE SubSeq(s, k + 1, Len(s))

\* s.strip()
Strip(s) ==
    LET keep == {i \in 1..Len(s) : ~IsSpace(s[i])}
    IN  IF keep = {} THEN <<>>
        ELSE SubSeq(s, CHOOSE i \in keep : \A j \in keep : i <= j,
                       CHOOSE i \in keep : \A j \in keep : i >= j)

\* p in s
Contains(s, p) ==
    \E i \in 1..(Len(s) - Len(p) + 1) : SubSeq(s, i, i + Len(p) - 1) = p

\* the characters at which str.splitlines() ends a line, for the characters
\* up to U+00FF: newline, carriage return, vertical tab, form feed, the
\* separators U+001C..U+001E and U+0085
IsLineBreak(c) == c \in {"\n", "\r", "", "\f", "", "", "", ""}

\* s.splitlines(): the lines of s without their line ends; "\r\n" is one
\* line end, and a last line needs none
SplitLines(s) ==
    LET ends == {i \in 1..Len(s) :
                    /\ IsLineBreak(s[i])
                    /\ ~(s[i] = "\r" /\ i < Len(s) /\ s[i + 1] = "\n")}
        end(k) == CHOOSE i \in ends : Cardinality({j \in ends : j < i}) = k - 1
        n == Cardinality(ends)
                 + (IF Len(s) > 0 /\ Len(s) \notin ends THEN 1 ELSE 0)
        first(k) == IF k = 1 THEN 1 ELSE end(k - 1) + 1
        last(k) == IF k > Cardinality(ends) THEN Len(s)
                   ELSE IF s[end(k)] = "\n" /\ end(k) > 1 /\ s[end(k) - 1] = "\r"
                           /\ end(k) - 1 >= first(k)
                   THEN end(k) - 2
                   ELSE end(k) - 1
    IN  [k \in 1..n |-> SubSeq(s, first(k), last(k))]

\* the pieces of ss, one after the other
Concat(ss) ==
    LET cells == UNION {{<<j, m>> : m \in 1..Len(ss[j])} : j \in 1..Len(ss)}
        before(c) == {d \in cells : \/ d[1] < c[1]
                                    \/ d[1] = c[1] /\ d[2] < c[2]}
    IN  [n \in 1..Cardinality(cells) |->
            LET c == CHOOSE d \in cells : Cardinality(before(d)) = n - 1
            IN  ss[c[1]][c[2]]]

-----------------------------------------------------------------------------
(* The device's answers to the three shell commands of _detect_ip          *)

IP_A == <<"1","9","2",".","1","6","8",".","4",".","1">>
IP_B == <<"1","0",".","0",".","0",".","7">>
Addrs == {IP_A, IP_B}

PrefixLens == {<<"2","4">>, <<"1","6">>}

Bcast(a) ==
    IF a = IP_A THEN <<"1","9","2",".","1","6","8",".","4",".","2","5","5">>
    ELSE <<"1","0",".","0",".","0",".","2","5","5">>

CMD_IP_ADDR  == "ip addr show wlan0"
CMD_IFCONFIG == "ifconfig wlan0"
CMD_UDHCPC   == "udhcpc -n -q -i wlan0"

\* commands, in the order _detect_ip tries them
commands == <<CMD_IP_ADDR, CMD_IFCONFIG, CMD_UDHCPC>>

IpShowHead ==
    <<"3",":"," ","w","l","a","n","0",":"," ","<","U","P",",","L","O","W",
      "E","R","_","U","P",">"," ","m","t","u"," ","1","5","0","0"," ","s",
      "t","a","t","e"," ","U","P","\n"," "," "," "," ","l","i","n","k","/",
      "e","t","h","e","r"," ","0","2",":","1","a",":","1","1",":","2","2",
      ":","3","3",":","4","4"," ","b","r","d"," ","f","f",":","f","f",":",
      "f","f",":","f","f",":","f","f",":","f","f","\n">>

IfconfigHead ==
    <<"w","l","a","n","0"," "," "," "," "," ","L","i","n","k"," ","e","n",
      "c","a","p",":","E","t","h","e","r","n","e","t"," "," ","H","W","a",
      "d","d","r"," ","0","2",":","1","A",":","1","1",":","2","2",":","3",
      "3",":","4","4","\n">>

IfconfigTail ==
    <<" "," "," "," "," "," "," "," "," "," ","U","P"," ","B","R","O","A",
      "D","C","A","S","T"," ","R","U","N","N","I","N","G"," ","M","U","L",
      "T","I","C","A","S","T"," "," ","M","T","U",":","1","5","0","0"," ",
      " ","M","e","t","r","i","c",":","1","\n">>

UdhcpcHead ==
    <<"u","d","h","c","p","c",":"," ","s","t","a","r","t","e","d",","," ",
      "v","1",".","3","1",".","1","\n","u","d","h","c","p","c",":"," ","s",
      "e","n","d","i","n","g"," ","d","i","s","c","o","v","e","r","\n">>

\* `ip addr show wlan0`:
\*     inet A.B.C.D/NN brd <bcast> scope global wlan0
IpAddrShowText(a, p) ==
    IF a = NoneVal THEN IpShowHead
    ELSE IpShowHead \o <<" "," "," "," ","i","n","e","t"," ">> \o a \o <<"/">>
         \o p \o <<" ","b","r","d"," ">> \o Bcast(a)
         \o <<" ","s","c","o","p","e"," ","g","l","o","b","a","l"," ",
              "w","l","a","n","0","\n">>

\* `ifconfig wlan0` (BusyBox):
\*     inet addr:A.B.C.D  Bcast:<bcast>  Mask:255.255.255.0
IfconfigText(a) ==
    IF a = NoneVal THEN IfconfigHead \o IfconfigTail
    ELSE IfconfigHead
         \o <<" "," ","i","n","e","t"," ","a","d","d","r",":">> \o a
         \o <<" "," ","B","c","a","s","t",":">> \o Bcast(a)
         \o <<" "," ","M","a","s","k",":","2","5","5",".","2","5","5",".",
              "2","5","5",".","0","\n">>
         \o IfconfigTail

\* `udhcpc -n -q -i wlan0`:
\*     udhcpc: lease of A.B.C.D obtained, lease time 3600
UdhcpcText(a) ==
    IF a = NoneVal
    THEN UdhcpcHead \o <<"u","d","h","c","p","c",":"," ","n","o"," ",
                         "l","e","a","s","e","\n">>
    ELSE UdhcpcHead
         \o <<"u","d","h","c","p","c",":"," ","l","e","a","s","e"," ",
              "o","f"," ">> \o a
         \o <<" ","o","b","t","a","i","n","e","d",","," ","l","e","a","s",
              "e"," ","t","i","m","e"," ","3","6","0","0","\n">>

\* stdout of `adb -s <id> shell <cmd>` on a device whose wlan0 is w; a
\* command the device's shell lacks prints nothing on stdout
ShellStdout(cmd, w) ==
    IF cmd \notin w.cmds THEN <<>>
    ELSE IF cmd = CMD_IP_ADDR THEN IpAddrShowText(w.addr, w.prefix)
    ELSE IF cmd = CMD_IFCONFIG THEN IfconfigText(w.addr)
    ELSE UdhcpcText(w.addr)

-----------------------------------------------------------------------------
(* luci/luci.py and luci/device.py                                         *)

NoLuci == [device_id |-> <<>>, _ip_address |-> NoneVal]

\* LUCI(device_id), lines 20-24
LUCI(device_id) ==
    IF ~Truthy(device_id)
    THEN [raised |-> "ValueError", msg |-> "LUCI requires a valid device_id",
          handle |-> NoLuci]
    ELSE [raised |-> "", msg |-> "",
          handle |-> [device_id |-> device_id, _ip_address |-> NoneVal]]

\* in the place of the device list when there is no adb program on PATH
NoAdb == <<[serial |-> <<>>, state |-> <<"no adb program">>]>>

\* the state adb prints for a device it can talk to
StateDevice == <<"d","e","v","i","c","e">>

\* what subprocess.run(["adb", ...]) raises then
NoAdbMsg == "[Errno 2] No such file or directory: 'adb'"

\* the device `adb -s id` talks to is listed as "device"
Attached(id, list) ==
    \E k \in 1..Len(list) : list[k] = [serial |-> id, state |-> StateDevice]

\* stdout of `adb -s id shell cmd`: nothing when the device is not there
AdbShellStdout(id, cmd, list, w) ==
    IF Attached(id, list) THEN ShellStdout(cmd, w) ELSE <<>>

\* LUCI._detect_ip, the inner loop: the first token of
\* out.replace(":", " ").split() with three dots and a leading digit
FirstIpToken(out) ==
    LET toks == Split(Replace(out, ":", " "))
        hits == {i \in 1..Len(toks) :
                    Count(toks[i], ".") = 3 /\ IsDigit(toks[i][1])}
    IN  IF hits = {} THEN NoneVal
        ELSE toks[CHOOSE i \in hits : \A j \in hits : i <= j]

RECURSIVE DetectFrom(_, _, _, _)
DetectFrom(id, list, w, k) ==
    IF k > Len(commands) THEN NoneVal
    ELSE LET tok == FirstIpToken(AdbShellStdout(id, commands[k], list, w))
         IN  IF tok # NoneVal THEN tok ELSE DetectFrom(id, list, w, k + 1)

\* LUCI._detect_ip: list is what `adb devices` would show, w the wlan0 of
\* the device; subprocess.run is not guarded, so a missing adb program
\* raises FileNotFoundError
_detect_ip(self, list, w) ==
    IF list = NoAdb
    THEN [raised |-> "FileNotFoundError", value |-> NoneVal]
    ELSE [raised |-> "", value |-> DetectFrom(self.device_id, list, w, 1)]

\* DeviceAPI._adb_shell
adb_shell(id, cmd, list, w) ==
    IF list = NoAdb
    THEN [raised |-> "FileNotFoundError", value |-> <<>>]
    ELSE [raised |-> "", value |-> Strip(AdbShellStdout(id, cmd, list, w))]

\* DeviceAPI.ip_address
ip_address(id, list, w) ==
    LET out == adb_shell(id, CMD_IP_ADDR, list, w)
        toks == Split(out.value)
        hits == {i \in 1..Len(toks) : StartsWith(toks[i], <<"i","n","e","t">>)}
    IN  IF out.raised # "" THEN [raised |-> out.raised, value |-> NoneVal]
        ELSE IF hits = {} THEN [raised |-> "", value |-> NoneVal]
        ELSE [raised |-> "",
              value |-> SliceFrom(SplitFirst(
                            toks[CHOOSE i \in hits : \A j \in hits : i <= j],
                            "/"), 5)]

\* what class LUCI itself defines (lines 29, 54, 98, 128, 138): the
\* classmethod, the methods and the property `device`
ClassAttrs ==
    {"connect_via_adb", "join_hotspot", "_detect_ip", "device", "view_stream"}

\* what every instance has from `object` and from being an instance of a
\* plain class: dir(LUCI("x")) without the names above
ObjectAttrs ==
    {"__class__", "__delattr__", "__dict__", "__dir__", "__doc__", "__eq__",
     "__format__", "__ge__", "__getattribute__", "__getstate__", "__gt__",
     "__hash__", "__init__", "__init_subclass__", "__le__", "__lt__",
     "__module__", "__ne__", "__new__", "__reduce__", "__reduce_ex__",
     "__repr__", "__setattr__", "__sizeof__", "__str__", "__subclasshook__",
     "__weakref__"}

\* Python attribute lookup on a LUCI instance: __init__ sets device_id and
\* _ip_address, the class gives the names of ClassAttrs (the value is then
\* the bound method or the DeviceAPI, written <<"<", name, ">">>), and there
\* is no __getattr__: any other name raises AttributeError
getattr(obj, name) ==
    IF name \in DOMAIN obj
    THEN [raised |-> "", value |-> obj[name]]
    ELSE IF name \in ClassAttrs \cup ObjectAttrs
    THEN [raised |-> "", value |-> <<"<", name, ">">>]
    ELSE [raised |-> "AttributeError", value |-> NoneVal]

AdbHeader == <<"L","i","s","t"," ","o","f"," ","d","e","v","i","c","e","s"," ","a","t","t","a","c","h","e","d">>

\* subprocess.run(["adb", "devices"]) (lines 34-39): FileNotFoundError
\* when there is no adb program; otherwise stdout is the header line, one
\* line "<serial>\t<state>" per device and an empty line
AdbDevices(list) ==
    IF list = NoAdb
    THEN [raised |-> "FileNotFoundError", stdout |-> <<>>]
    ELSE [raised |-> "",
          stdout |-> AdbHeader \o <<"\n">>
                     \o Concat([k \in 1..Len(list) |->
                                   list[k].serial \o <<"\t">>
                                   \o list[k].state \o <<"\n">>])
                     \o <<"\n">>]

\* lines 41-49 on the lines after the header and the serials kept of them
Connected(devices) ==
    IF devices = <<>>
    THEN [raised |-> "RuntimeError",
          msg    |-> "No LUCI Pin detected via ADB",
          handle |-> NoLuci]
    ELSE [raised |-> "", msg |-> "",
          handle |-> [device_id |-> devices[1], _ip_address |-> NoneVal]]

\* the first word of each line of `lines`
FirstWords(lines) == [k \in 1..Len(lines) |-> Split(lines[k])[1]]

\* connect_via_adb keeping every line that has a tab, whatever the state
connect_via_adbMut(result) ==
    IF result.raised # ""
    THEN [raised |-> result.raised, msg |-> NoAdbMsg, handle |-> NoLuci]
    ELSE Connected(FirstWords(SelectSeq(SliceFrom(SplitLines(result.stdout), 1),
                                        LAMBDA l : Contains(l, <<"\t">>))))

\* LUCI.connect_via_adb on what `adb devices` did; lines 34-39 run adb
\* unguarded, so a missing adb program raises FileNotFoundError.  Line 41
\* drops the first line, line 42 keeps the first word of every line that
\* holds "\tdevice".
connect_via_adb(result) ==
    IF result.raised # ""
    THEN [raised |-> result.raised, msg |-> NoAdbMsg, handle |-> NoLuci]
    ELSE Connected(FirstWords(SelectSeq(SliceFrom(SplitLines(result.stdout), 1),
                                        LAMBDA l : Contains(l, <<"\t">> \o StateDevice))))

\* os.path.abspath(<luci>/../setup_connection/Wireless_connection/
\* setup_hotspot_connection.py) (lines 61-69); <dir> stands for the absolute
\* directory, which depends on where the package is installed
script_path == "<dir>/setup_hotspot_connection.py"

\* `result.stderr or result.stdout`
Diagnostic(run) == IF run.stderr # "" THEN run.stderr ELSE run.stdout

\* line 89, `self._ip_address = self._detect_ip()`, d being what _detect_ip
\* did, and then what the rest of join_hotspot does (`then`)
StoreDetected(self, d, then) ==
    IF d.raised # ""
    THEN [raised |-> d.raised, msg |-> NoAdbMsg,
          self |-> self, ran |-> TRUE, detect |-> TRUE]
    ELSE [raised |-> then.raised, msg |-> then.msg,
          self |-> [self EXCEPT !._ip_address = d.value],
          ran |-> TRUE, detect |-> TRUE]

\* LUCI.join_hotspot(self, ssid, password): exists says whether the setup
\* script is on disk, run is what the script's process returned, list is
\* what `adb devices` would show and w is the device's wlan0 when the
\* script has returned
join_hotspot(self, ssid, password, exists, run, list, w) ==
    IF ~Truthy(ssid) \/ ~Truthy(password)
    THEN [raised |-> "ValueError", msg |-> "SSID and password are required",
          self |-> self, ran |-> FALSE, detect |-> FALSE]
    ELSE IF ~exists
    THEN [raised |-> "FileNotFoundError",
          msg |-> "Hotspot setup script not found: " \o script_path,
          self |-> self, ran |-> FALSE, detect |-> FALSE]
    ELSE IF run.rc # 0
    THEN [raised |-> "RuntimeError", msg |-> Diagnostic(run),
          self |-> self, ran |-> TRUE, detect |-> FALSE]
    ELSE StoreDetected(self, _detect_ip(self, list, w),
                       [raised |-> "", msg |-> ""])

DEFAULT_PORT == 50001

DEFAULT_PATH == <<"/","l","i","v","e","/","0">>

Digit(d) == <<"0","1","2","3","4","5","6","7","8","9">>[d + 1]

RECURSIVE Str(_)
\* str(n) for n >= 0
Str(n) == IF n < 10 THEN <<Digit(n)>> ELSE Str(n \div 10) \o <<Digit(n % 10)>>

\* f"{v}" for an optional string
Fmt(v) == IF v = NoneVal THEN <<"N","o","n","e">> ELSE v

\* f"rtsp://{ip}:{port}{path}"
RtspUrl(addr, port, path) ==
    <<"r","t","s","p",":","/","/">> \o Fmt(addr) \o <<":">> \o Str(port) \o path

\* view_stream's default port and path
VIEW_PORT == 50001

VIEW_PATH == <<"/","l","i","v","e","/","0">>

\* LUCI.view_stream(port, path) on a device whose wlan0 is w; the device
\* is asked only when the handle has no address of its own
view_stream(self, port, path, list, w) ==
    LET asked == ip_address(self.device_id, list, w)
        addr == PyOr(self._ip_address, asked.value)
    IN  IF ~Truthy(self._ip_address) /\ asked.raised # ""
        THEN [raised |-> asked.raised, msg |-> NoAdbMsg, url |-> <<>>]
        ELSE IF ~Truthy(addr)
        THEN [raised |-> "RuntimeError",
              msg |-> "Device IP unknown. Connect to hotspot first.",
              url |-> <<>>]
        ELSE [raised |-> "", msg |-> "", url |-> RtspUrl(addr, port, path)]

-----------------------------------------------------------------------------
(* Environment                                                             *)

MaxEnvChanges == 2

Dev(s, st) == [serial |-> s, state |-> st]

ABC123 == <<"A","B","C","1","2","3">>
XYZ789 == <<"X","Y","Z","7","8","9">>
SER1 == <<"S","E","R","1">>

\* what adb prints for a device that reports no serial number
NoSerial == <<"(","n","o"," ","s","e","r","i","a","l"," ","n","u","m","b","e","r",")">>

StateOffline == <<"o","f","f","l","i","n","e">>
StateUnauthorized == <<"u","n","a","u","t","h","o","r","i","z","e","d">>

AdbLists ==
    { NoAdb,
      <<>>,
      <<Dev(ABC123, StateDevice)>>,
      <<Dev(ABC123, StateOffline)>>,
      <<Dev(ABC123, StateUnauthorized), Dev(XYZ789, StateDevice)>>,
      <<Dev(XYZ789, StateDevice), Dev(ABC123, StateDevice)>>,
      <<Dev(NoSerial, StateDevice)>> }

\* the device's shell has one of the three tools, all of them or none
Toolsets ==
    { {}, {CMD_IP_ADDR}, {CMD_IFCONFIG}, {CMD_UDHCPC},
      {CMD_IP_ADDR, CMD_IFCONFIG, CMD_UDHCPC} }

WlanStates == [addr : Addrs \cup {NoneVal}, prefix : PrefixLens, cmds : Toolsets]

\* arguments a caller passes to join_hotspot
SsidArgs == {<<>>, <<"l","u","c","i">>}
PasswordArgs == {<<>>, <<"p","w","1","2">>}

MaxCalls == 3

\* what a caller passes to LUCI(device_id): nothing, a device that is
\* plugged in under some lists, a device that never is
DeviceIds == {<<>>, ABC123, SER1}

\* what the hotspot setup script's process can return
JoinRuns ==
    { [rc |-> 0, stderr |-> "", stdout |-> "connected"],
      [rc |-> 1, stderr |-> "wpa_cli: auth failed", stdout |-> "joining"],
      [rc |-> 1, stderr |-> "", stdout |-> "no adb device"],
      [rc |-> 2, stderr |-> "", stdout |-> ""] }

\* the setup script is missing, or it ran and returned
JoinEnvs ==
    {[exists |-> FALSE, run |-> [rc |-> 0, stderr |-> "", stdout |-> ""]]}
    \cup {[exists |-> TRUE, run |-> r] : r \in JoinRuns}

\* what the user can type at a prompt
Inputs == {<<>>, <<" ">>, <<"l","u","c","i">>, <<"p","w","1","2"," ">>}

NoFile == <<"NoFile">>

\* a damaged file: an address that lost an octet
Damaged == <<"1","0",".",".","7","\n">>

\* a cached name that the idna codec refuses: a label that is not ASCII and
\* starts with the ACE prefix
AceName == <<"x", "n", "-", "-", "é">>

CacheFiles ==
    {NoFile, <<>>, <<"\n">>, IP_A, IP_B \o <<"\n">>, Damaged, AceName}

NoCall ==
    [op |-> "", raised |-> "", msg |-> "", pre_ip |-> NoneVal,
     ran |-> FALSE, detect |-> FALSE,
     run |-> [rc |-> 0, stderr |-> "", stdout |-> ""], ret |-> NoneVal,
     url |-> <<>>]

\* the device's port 50001 starts or stops answering
EnvReach ==
    /\ netChanges < MaxEnvChanges
    /\ \E a \in Addrs :
         reachable' = IF a \in reachable THEN reachable \ {a}
                      ELSE reachable \cup {a}
    /\ netChanges' = netChanges + 1
    /\ UNCHANGED <<adbList, wlan, cacheFile, cache0, luciVars, mainVars, guiVars>>

-----------------------------------------------------------------------------
(* Calls on the LUCI handle, in any order a program may make them          *)

\* luci = LUCI(device_id): the constructor asks adb nothing
LuciNew ==
    /\ calls < MaxCalls
    /\ calls' = calls + 1
    /\ \E id \in DeviceIds :
         LET r == LUCI(id)
         IN  /\ luci' = IF r.raised = "" THEN r.handle ELSE luci
             /\ lastCall' = [NoCall EXCEPT !.op = "LUCI",
                                           !.raised = r.raised, !.msg = r.msg,
                                           !.pre_ip = luci._ip_address]
    /\ UNCHANGED <<envVars, mainVars, guiVars>>

LuciConnect ==
    LET r == connect_via_adb(AdbDevices(adbList))
    IN  /\ calls < MaxCalls
        /\ calls' = calls + 1
        /\ luci' = IF r.raised = "" THEN r.handle ELSE luci
        /\ lastCall' = [NoCall EXCEPT !.op = "connect_via_adb",
                                      !.raised = r.raised, !.msg = r.msg,
                                      !.pre_ip = luci._ip_address]
        /\ UNCHANGED <<envVars, mainVars, guiVars>>

LuciJoinHotspot ==
    /\ luci # NoLuci
    /\ calls < MaxCalls
    /\ calls' = calls + 1
    /\ \E ssid \in SsidArgs, password \in PasswordArgs, e \in JoinEnvs,
          w \in WlanStates :
         LET r == join_hotspot(luci, ssid, password, e.exists, e.run,
                               adbList, w)
         IN  /\ w.cmds = wlan.cmds
             /\ ~r.ran => w = wlan
             /\ wlan' = w
             /\ luci' = r.self
             /\ lastCall' = [NoCall EXCEPT !.op = "join_hotspot",
                                           !.raised = r.raised, !.msg = r.msg,
                                           !.pre_ip = luci._ip_address,
                                           !.ran = r.ran, !.detect = r.detect,
                                           !.run = e.run,
                                           !.ret = r.self._ip_address]
    /\ UNCHANGED <<adbList, reachable, cacheFile, cache0, netChanges,
                   mainVars, guiVars>>

\* luci.device.ip_address()
LuciDeviceIp ==
    /\ luci # NoLuci
    /\ calls < MaxCalls
    /\ calls' = calls + 1
    /\ LET r == ip_address(luci.device_id, adbList, wlan)
       IN  lastCall' = [NoCall EXCEPT !.op = "device.ip_address",
                                      !.raised = r.raised,
                                      !.msg = IF r.raised = "" THEN ""
                                              ELSE NoAdbMsg,
                                      !.pre_ip = luci._ip_address,
                                      !.ret = r.value]
    /\ UNCHANGED <<luci, envVars, mainVars, guiVars>>

LuciViewStream ==
    /\ luci # NoLuci
    /\ calls < MaxCalls
    /\ calls' = calls + 1
    /\ LET r == view_stream(luci, VIEW_PORT, VIEW_PATH, adbList, wlan)
       IN  lastCall' = [NoCall EXCEPT !.op = "view_stream",
                                      !.raised = r.raised, !.msg = r.msg,
                                      !.pre_ip = luci._ip_address,
                                      !.url = r.url]
    /\ UNCHANGED <<luci, envVars, mainVars, guiVars>>

-----------------------------------------------------------------------------
(* examples/record_video.py                                                *)

\* luci.utils.load_ip: the cached file's text, newline-trimmed; None when
\* there is no file
load_ip(file) == IF file = NoFile THEN NoneVal ELSE Strip(file)

\* luci.utils.save_ip: the file holds the one address
save_ip(addr) == addr

\* the endpoints that accept a TCP connection when the hosts of `hosts`
\* answer on the RTSP port
Listening(hosts) == {<<h, DEFAULT_PORT>> : h \in hosts}

\* the positions of the dots of a host name, in order
Dots(host) ==
    LET at == {i \in 1..Len(host) : host[i] = "."}
    IN  [k \in 1..Cardinality(at) |->
            CHOOSE i \in at : Cardinality({j \in at : j < i}) = k - 1]

\* the lengths of the labels of a host name: the pieces between its dots
LabelLens(host) ==
    LET dots == Dots(host)
        start(k) == IF k = 1 THEN 0 ELSE dots[k - 1]
        end(k) == IF k > Len(dots) THEN Len(host) + 1 ELSE dots[k]
    IN  [k \in 1..(Len(dots) + 1) |-> end(k) - start(k) - 1]

\* the labels themselves
Labels(host) ==
    LET dots == Dots(host)
        start(k) == IF k = 1 THEN 0 ELSE dots[k - 1]
        end(k) == IF k > Len(dots) THEN Len(host) + 1 ELSE dots[k]
    IN  [k \in 1..(Len(dots) + 1) |-> SubSeq(host, start(k) + 1, end(k) - 1)]

\* The idna codec, which socket.create_connection applies to a host name
\* before any lookup, for host names of characters up to U+00FF.

\* a character of a prepared label: an ASCII character, or the code point
\* of a character beyond ASCII
Basic(c) == [ch |-> c, cp |-> 0]
Extended(n) == [ch |-> "", cp |-> n]

\* U+0080..U+009F: prohibited in a label
C1Controls ==
    {"", "", "", "", "", "", "", "", "", "", "", "", "", "", "", "", "", "", "", "", "", "", "", "", "", "", "", "", "", "", "", ""}

\* U+00AD: mapped to nothing
SoftHyphen == "­"

\* stringprep of U+00A0..U+00FF: mapping, case folding and NFKC
NameprepTable ==
    <<
       [c |-> " ", to |-> <<Basic(" ")>>],
       [c |-> "¡", to |-> <<Extended(161)>>],
       [c |-> "¢", to |-> <<Extended(162)>>],
       [c |-> "£", to |-> <<Extended(163)>>],
       [c |-> "¤", to |-> <<Extended(164)>>],
       [c |-> "¥", to |-> <<Extended(165)>>],
       [c |-> "¦", to |-> <<Extended(166)>>],
       [c |-> "§", to |-> <<Extended(167)>>],
       [c |-> "¨", to |-> <<Basic(" "), Extended(776)>>],
       [c |-> "©", to |-> <<Extended(169)>>],
       [c |-> "ª", to |-> <<Basic("a")>>],
       [c |-> "«", to |-> <<Extended(171)>>],
       [c |-> "¬", to |-> <<Extended(172)>>],
       [c |-> "®", to |-> <<Extended(174)>>],
       [c |-> "¯", to |-> <<Basic(" "), Extended(772)>>],
       [c |-> "°", to |-> <<Extended(176)>>],
       [c |-> "±", to |-> <<Extended(177)>>],
       [c |-> "²", to |-> <<Basic("2")>>],
       [c |-> "³", to |-> <<Basic("3")>>],
       [c |-> "´", to |-> <<Basic(" "), Extended(769)>>],
       [c |-> "µ", to |-> <<Extended(956)>>],
       [c |-> "¶", to |-> <<Extended(182)>>],
       [c |-> "·", to |-> <<Extended(183)>>],
       [c |-> "¸", to |-> <<Basic(" "), Extended(807)>>],
       [c |-> "¹", to |-> <<Basic("1")>>],
       [c |-> "º", to |-> <<Basic("o")>>],
       [c |-> "»", to |-> <<Extended(187)>>],
       [c |-> "¼", to |-> <<Basic("1"), Extended(8260), Basic("4")>>],
       [c |-> "½", to |-> <<Basic("1"), Extended(8260), Basic("2")>>],
       [c |-> "¾", to |-> <<Basic("3"), Extended(8260), Basic("4")>>],
       [c |-> "¿", to |-> <<Extended(191)>>],
       [c |-> "À", to |-> <<Extended(224)>>],
       [c |-> "Á", to |-> <<Extended(225)>>],
       [c |-> "Â", to |-> <<Extended(226)>>],
       [c |-> "Ã", to |-> <<Extended(227)>>],
       [c |-> "Ä", to |-> <<Extended(228)>>],
       [c |-> "Å", to |-> <<Extended(229)>>],
       [c |-> "Æ", to |-> <<Extended(230)>>],
       [c |-> "Ç", to |-> <<Extended(231)>>],
       [c |-> "È", to |-> <<Extended(232)>>],
       [c |-> "É", to |-> <<Extended(233)>>],
       [c |-> "Ê", to |-> <<Extended(234)>>],
       [c |-> "Ë", to |-> <<Extended(235)>>],
       [c |-> "Ì", to |-> <<Extended(236)>>],
       [c |-> "Í", to |-> <<Extended(237)>>],
       [c |-> "Î", to |-> <<Extended(238)>>],
       [c |-> "Ï", to |-> <<Extended(239)>>],
       [c |-> "Ð", to |-> <<Extended(240)>>],
       [c |-> "Ñ", to |-> <<Extended(241)>>],
       [c |-> "Ò", to |-> <<Extended(242)>>],
       [c |-> "Ó", to |-> <<Extended(243)>>],
       [c |-> "Ô", to |-> <<Extended(244)>>],
       [c |-> "Õ", to |-> <<Extended(245)>>],
       [c |-> "Ö", to |-> <<Extended(246)>>],
       [c |-> "×", to |-> <<Extended(215)>>],
       [c |-> "Ø", to |-> <<Extended(248)>>],
       [c |-> "Ù", to |-> <<Extended(249)>>],
       [c |-> "Ú", to |-> <<Extended(250)>>],
       [c |-> "Û", to |-> <<Extended(251)>>],
       [c |-> "Ü", to |-> <<Extended(252)>>],
       [c |-> "Ý", to |-> <<Extended(253)>>],
       [c |-> "Þ", to |-> <<Extended(254)>>],
       [c |-> "ß", to |-> <<Basic("s"), Basic("s")>>],
       [c |-> "à", to |-> <<Extended(224)>>],
       [c |-> "á", to |-> <<Extended(225)>>],
       [c |-> "â", to |-> <<Extended(226)>>],
       [c |-> "ã", to |-> <<Extended(227)>>],
       [c |-> "ä", to |-> <<Extended(228)>>],
       [c |-> "å", to |-> <<Extended(229)>>],
       [c |-> "æ", to |-> <<Extended(230)>>],
       [c |-> "ç", to |-> <<Extended(231)>>],
       [c |-> "è", to |-> <<Extended(232)>>],
       [c |-> "é", to |-> <<Extended(233)>>],
       [c |-> "ê", to |-> <<Extended(234)>>],
       [c |-> "ë", to |-> <<Extended(235)>>],
       [c |-> "ì", to |-> <<Extended(236)>>],
       [c |-> "í", to |-> <<Extended(237)>>],
       [c |-> "î", to |-> <<Extended(238)>>],
       [c |-> "ï", to |-> <<Extended(239)>>],
       [c |-> "ð", to |-> <<Extended(240)>>],
       [c |-> "ñ", to |-> <<Extended(241)>>],
       [c |-> "ò", to |-> <<Extended(242)>>],
       [c |-> "ó", to |-> <<Extended(243)>>],
       [c |-> "ô", to |-> <<Extended(244)>>],
       [c |-> "õ", to |-> <<Extended(245)>>],
       [c |-> "ö", to |-> <<Extended(246)>>],
       [c |-> "÷", to |-> <<Extended(247)>>],
       [c |-> "ø", to |-> <<Extended(248)>>],
       [c |-> "ù", to |-> <<Extended(249)>>],
       [c |-> "ú", to |-> <<Extended(250)>>],
       [c |-> "û", to |-> <<Extended(251)>>],
       [c |-> "ü", to |-> <<Extended(252)>>],
       [c |-> "ý", to |-> <<Extended(253)>>],
       [c |-> "þ", to |-> <<Extended(254)>>],
       [c |-> "ÿ", to |-> <<Extended(255)>>]
    >>

NameprepMap(c) ==
    NameprepTable[CHOOSE k \in 1..Len(NameprepTable) : NameprepTable[k].c = c].to

Latin1Letters == {NameprepTable[k].c : k \in 1..Len(NameprepTable)}

UpperCase == <<"A", "B", "C", "D", "E", "F", "G", "H", "I", "J", "K", "L", "M", "N", "O", "P", "Q", "R", "S", "T", "U", "V", "W", "X", "Y", "Z">>
LowerCase == <<"a", "b", "c", "d", "e", "f", "g", "h", "i", "j", "k", "l", "m", "n", "o", "p", "q", "r", "s", "t", "u", "v", "w", "x", "y", "z">>

lower(c) ==
    IF \E k \in 1..26 : UpperCase[k] = c
    THEN LowerCase[CHOOSE k \in 1..26 : UpperCase[k] = c]
    ELSE c

IsAscii(c) == c \notin C1Controls \cup {SoftHyphen} \cup Latin1Letters

nameprep(label) ==
    Concat([i \in 1..Len(label) |->
               IF label[i] = SoftHyphen THEN <<>>
               ELSE IF IsAscii(label[i]) THEN <<Basic(lower(label[i]))>>
               ELSE NameprepMap(label[i])])

\* encodings.punycode (RFC 3492) on a prepared label
Base36 == <<"a", "b", "c", "d", "e", "f", "g", "h", "i", "j", "k", "l", "m", "n", "o", "p", "q", "r", "s", "t", "u", "v", "w", "x", "y", "z", "0", "1", "2", "3", "4", "5", "6", "7", "8", "9">>

T(k, bias) == IF k <= bias THEN 1 ELSE IF k >= bias + 26 THEN 26 ELSE k - bias

RECURSIVE generate_generalized_integer(_, _, _)
generate_generalized_integer(n, bias, k) ==
    LET t == T(k, bias)
    IN  IF n < t THEN <<Base36[n + 1]>>
        ELSE <<Base36[t + ((n - t) % (36 - t)) + 1]>>
             \o generate_generalized_integer((n - t) \div (36 - t), bias, k + 36)

RECURSIVE AdaptDivisions(_, _)
AdaptDivisions(delta, k) ==
    IF delta > 455 THEN AdaptDivisions(delta \div 35, k + 36)
    ELSE k + ((36 * delta) \div (delta + 38))

adapt(delta, first, numchars) ==
    LET d == IF first THEN delta \div 700 ELSE delta \div 2
    IN  AdaptDivisions(d + (d \div numchars), 0)

\* the characters beyond ASCII are inserted in the order of their code
\* points, equal ones from left to right; each insertion is written as the
\* distance from the one before
insertion_unsort(us) ==
    LET ext == {p \in 1..Len(us) : us[p].cp # 0}
        before(p) == {q \in ext : \/ us[q].cp < us[p].cp
                                  \/ us[q].cp = us[p].cp /\ q < p}
        pos == [j \in 1..Cardinality(ext) |->
                   CHOOSE p \in ext : Cardinality(before(p)) = j - 1]
        at(j) == Cardinality({q \in 1..(pos[j] - 1) :
                                 us[q].cp <= us[pos[j]].cp})
        char(j) == IF j = 0 THEN 128 ELSE us[pos[j]].cp
        baselen == Len(us) - Cardinality(ext)
    IN  [j \in 1..Cardinality(ext) |->
            (char(j) - char(j - 1)) * (baselen + j)
            + at(j) - (IF j = 1 THEN 0 ELSE at(j - 1) + 1)]

generate_integers(baselen, deltas) ==
    LET bias(j) == IF j = 1 THEN 72
                   ELSE adapt(deltas[j - 1], j = 2, baselen + j - 1)
    IN  Concat([j \in 1..Len(deltas) |->
                   generate_generalized_integer(deltas[j], bias(j), 36)])

punycode_encode(us) ==
    LET base == SelectSeq(us, LAMBDA u : u.cp = 0)
    IN  [k \in 1..Len(base) |-> base[k].ch]
        \o (IF base = <<>> THEN <<>> ELSE <<"-">>)
        \o generate_integers(Len(base), insertion_unsort(us))

\* the ACE prefix, as prepared characters
AcePrefix == <<Basic("x"), Basic("n"), Basic("-"), Basic("-")>>

\* encodings.idna.ToASCII, step 8: the result must have 1..63 characters
ToASCIISized(enc) == [raised |-> Len(enc) < 1 \/ Len(enc) > 63, label |-> enc]

\* encodings.idna.ToASCII, steps 3-8 on a prepared label: one of ASCII
\* characters is the result; another one must not start with the ACE prefix
\* (step 5) and is written as xn-- and its punycode
ToASCIIPrepared(us) ==
    IF \A k \in 1..Len(us) : us[k].cp = 0
    THEN ToASCIISized([k \in 1..Len(us) |-> us[k].ch])
    ELSE IF Len(us) >= 4 /\ SubSeq(us, 1, 4) = AcePrefix
    THEN [raised |-> TRUE, label |-> <<>>]
    ELSE ToASCIISized(<<"x", "n", "-", "-">> \o punycode_encode(us))

\* encodings.idna.ToASCII: an ASCII label is taken as it is, another one is
\* prepared first
ToASCII(label) ==
    IF \A i \in 1..Len(label) : IsAscii(label[i])
    THEN ToASCIISized(label)
    ELSE IF \E i \in 1..Len(label) : label[i] \in C1Controls
    THEN [raised |-> TRUE, label |-> <<>>]
    ELSE ToASCIIPrepared(nameprep(label))

\* the encoded labels with dots between them, and the trailing dot
JoinLabels(enc, trailing) ==
    [raised |-> \E k \in 1..Len(enc) : enc[k].raised,
     host |-> Concat([k \in 1..Len(enc) |->
                         (IF k = 1 THEN <<>> ELSE <<".">>) \o enc[k].label])
              \o (IF trailing THEN <<".">> ELSE <<>>)]

\* encodings.idna.Codec.encode for a host name with characters beyond
\* ASCII: label by label, a last empty label standing for a trailing dot
EncodeLabels(all) ==
    JoinLabels([k \in 1..(IF all[Len(all)] = <<>> THEN Len(all) - 1
                          ELSE Len(all)) |-> ToASCII(all[k])],
               all[Len(all)] = <<>>)

\* encodings.idna.Codec.encode for a host name of ASCII characters: every
\* label but the last must have 1..63 characters and the last fewer than 64
AsciiLabelsFail(lens) ==
    \/ \E k \in 1..(Len(lens) - 1) : lens[k] < 1 \/ lens[k] > 63
    \/ lens[Len(lens)] > 63

\* encodings.idna.Codec.encode
IdnaEncode(host) ==
    IF \A i \in 1..Len(host) : IsAscii(host[i])
    THEN [raised |-> AsciiLabelsFail(LabelLens(host)), host |-> host]
    ELSE EncodeLabels(Labels(host))

\* socket.create_connection((host, port)) for the encoded host name e: the
\* UnicodeError of a name that cannot be encoded, or whether the endpoint
\* accepts the connection. `up` is the set of endpoints <<host, port>> that
\* accept one, host being the encoded name.
create_connection(e, port, up) ==
    IF e.raised
    THEN [raised |-> "UnicodeError", value |-> FALSE]
    ELSE [raised |-> "", value |-> <<e.host, port>> \in up]

\* rtsp_reachable(ip, port) (lines 13-22): True when a TCP connection to
\* ip:port completes, False on OSError (refused, timed out, name not
\* resolved); the UnicodeError of a host name that cannot be encoded is not
\* an OSError and leaves the function.
rtsp_reachable(addr, port, up) ==
    create_connection(IdnaEncode(addr), port, up)

\* A Python int n as <<q, r>>, n = q * 100000 + r with 0 <= r < 100000
\* (the waits that time.sleep refuses are beyond the model checker's
\* integers)
PyInt(q, r) == <<q, r>>

\* a < b
IntLess(a, b) == a[1] < b[1] \/ (a[1] = b[1] /\ a[2] < b[2])

\* a + n for a small n >= 0
IntPlus(a, n) == <<a[1] + (a[2] + n) \div 100000, (a[2] + n) % 100000>>

\* the seconds a C _PyTime_t holds: (2^63 - 1) \div 10^9 = 9223372036
PyTimeMax == PyInt(92233, 72036)

\* -9223372036
PyTimeMin == PyInt(-92234, 27964)

\* time.sleep(secs) for an int, `now` being the monotonic clock's reading in
\* whole seconds: OverflowError when secs is no _PyTime_t, ValueError when
\* it is negative, OSError when the clock cannot reach now + secs; msg is ""
\* when the wait is made
sleep(secs, now) ==
    IF IntLess(PyTimeMax, secs) \/ IntLess(secs, PyTimeMin)
    THEN [raised |-> "OverflowError",
          msg |-> "timestamp too large to convert to C _PyTime_t"]
    ELSE IF IntLess(secs, PyInt(0, 0))
    THEN [raised |-> "ValueError", msg |-> "sleep length must be non-negative"]
    ELSE IF IntLess(PyTimeMax, IntPlus(secs, now))
    THEN [raised |-> "OSError", msg |-> "[Errno 22] Invalid argument"]
    ELSE [raised |-> "", msg |-> ""]

\* values of --duration (line 29: any int; 10 when not given)
Durations ==
    {PyInt(0, 10), PyInt(0, 0), PyInt(-1, 99999), PyTimeMax, IntPlus(PyTimeMax, 1),
     PyInt(-92234, 27963)}

\* readings of the monotonic clock, in seconds
Uptimes == {1, 23511}

\* what time.sleep(args.duration) can raise
SleepErrors ==
    {sleep(d, now).msg : d \in Durations, now \in Uptimes} \ {""}

\* KeyboardInterrupts delivered to one run
MaxInterrupts == 2

Terminal == {"returned", "aborted", "done"}

\* an exception leaves main uncaught
Abort(e) ==
    /\ pc' = "aborted"
    /\ err' = e

\* line 45
MainLoadCache ==
    /\ pc = "load"
    /\ cached_ip' = load_ip(cacheFile)
    /\ pc' = "cached"
    /\ UNCHANGED <<ip, err, probes, saved, prompts, adbCalls, rtsp_url,
                   starts, stops, interrupted, envVars, luciVars, guiVars>>

\* lines 46-48 and 52: the probe of the cached IP; a probe that raises
\* leaves main at line 48
MainTryCached ==
    /\ pc = "cached"
    /\ IF Truthy(cached_ip)
       THEN LET r == rtsp_reachable(cached_ip, DEFAULT_PORT,
                                    Listening(reachable))
            IN  /\ probes' = Append(probes, [ip |-> cached_ip, ok |-> r.value])
                /\ IF r.raised # ""
                   THEN Abort(r.raised)
                   ELSE /\ pc' = IF r.value THEN "cached_ok" ELSE "fallback"
                        /\ err' = err
       ELSE /\ pc' = "fallback"
            /\ UNCHANGED <<probes, err>>
    /\ UNCHANGED <<cached_ip, ip, saved, prompts, adbCalls, rtsp_url,
                   starts, stops, interrupted, envVars, luciVars, guiVars>>

\* lines 49-50: the cached IP answered, it becomes the IP to record from
MainUseCached ==
    /\ pc = "cached_ok"
    /\ ip' = cached_ip
    /\ pc' = "fallback"
    /\ UNCHANGED <<cached_ip, err, probes, saved, prompts, adbCalls, rtsp_url,
                   starts, stops, interrupted, envVars, luciVars, guiVars>>

\* lines 61-68 without the `return`: after the error is printed main goes on
\* to the recording stage
DiscoveryFailedMut(r) ==
    /\ err' = r.msg
    /\ pc' = "record"
    /\ UNCHANGED <<luci, prompts>>

\* connect_via_adb raised RuntimeError: the except clause of lines 61-68 is
\* entered, which prints the error and the hint and then returns
DiscoveryFailed(r) ==
    /\ err' = r.msg
    /\ pc' = "except"
    /\ UNCHANGED <<luci, prompts>>

\* lines 57-68 without the `if not ip` test: discovery is always tried
MainTryAdbMut ==
    /\ pc = "fallback"
    /\ IF FALSE
       THEN /\ pc' = "record"
            /\ UNCHANGED <<luci, lastCall, adbCalls, err, prompts>>
       ELSE LET r == connect_via_adb(AdbDevices(adbList))
            IN  /\ adbCalls' = adbCalls + 1
                /\ lastCall' = [NoCall EXCEPT !.op = "connect_via_adb",
                                              !.raised = r.raised,
                                              !.msg = r.msg]
                /\ IF r.raised = "RuntimeError"
                   THEN DiscoveryFailed(r)
                   ELSE IF r.raised # ""
                   THEN /\ Abort(r.raised)
                        /\ UNCHANGED <<luci, prompts>>
                   ELSE /\ luci' = r.handle
                        /\ pc' = "resolve"
                        /\ UNCHANGED <<err, prompts>>
    /\ UNCHANGED <<cached_ip, ip, probes, saved, rtsp_url, starts, stops,
                   interrupted, calls, envVars, guiVars>>

\* lines 57-68: only RuntimeError is caught at line 61; the
\* FileNotFoundError of a missing adb program leaves main at line 60
MainTryAdb ==
    /\ pc = "fallback"
    /\ IF Truthy(ip)
       THEN /\ pc' = "record"
            /\ UNCHANGED <<luci, lastCall, adbCalls, err, prompts>>
       ELSE LET r == connect_via_adb(AdbDevices(adbList))
            IN  /\ adbCalls' = adbCalls + 1
                /\ lastCall' = [NoCall EXCEPT !.op = "connect_via_adb",
                                              !.raised = r.raised,
                                              !.msg = r.msg]
                /\ IF r.raised = "RuntimeError"
                   THEN DiscoveryFailed(r)
                   ELSE IF r.raised # ""
                   THEN /\ Abort(r.raised)
                        /\ UNCHANGED <<luci, prompts>>
                   ELSE /\ luci' = r.handle
                        /\ pc' = "resolve"
                        /\ UNCHANGED <<err, prompts>>
    /\ UNCHANGED <<cached_ip, ip, probes, saved, rtsp_url, starts, stops,
                   interrupted, calls, envVars, guiVars>>

\* line 60, luci.py lines 34-39: KeyboardInterrupt while connect_via_adb
\* waits for `adb devices`: the call has been made and adb has been run,
\* but there is no result and no handle, and main ends at line 60
InterruptInAdb ==
    /\ pc = "fallback"
    /\ ~Truthy(ip)
    /\ Len(interrupted) < MaxInterrupts
    /\ interrupted' = Append(interrupted, pc)
    /\ adbCalls' = adbCalls + 1
    /\ Abort("KeyboardInterrupt")
    /\ UNCHANGED <<cached_ip, ip, probes, saved, prompts, rtsp_url, starts,
                   stops, envVars, luciVars, guiVars>>

\* where lines 76-87 can be left early, by line: Ctrl-C before the banner
\* (76), Ctrl-C or end of input while input() waits for the ssid (77) or for
\* the password (78), Ctrl-C while join_hotspot runs (80: the join script
\* may have changed the device's network already, the handle has not been
\* given its address yet), Ctrl-C once join_hotspot has returned (81)
PromptStops ==
    {[stop |-> "", at |-> 0]}
    \cup {[stop |-> "KeyboardInterrupt", at |-> l] : l \in {76, 77, 78, 80, 81}}
    \cup {[stop |-> "EOFError", at |-> l] : l \in {77, 78}}

\* lines 76-87, entered with the handle h, the ip read at line 70 and the
\* probes made so far.  The block waits for the user twice and for the join
\* script once: up2 is what answers when line 83 probes (the network may
\* have changed during the waits), s is where the block was left early.
MainHotspot(h, ip70, probed) ==
    \E ssidRaw \in Inputs, passwordRaw \in Inputs, exists \in BOOLEAN,
       run \in JoinRuns, w \in WlanStates, up2 \in SUBSET Addrs,
       s \in PromptStops :
      LET j == join_hotspot(h, Strip(ssidRaw), Strip(passwordRaw),
                            exists, run, adbList, w)
          got == getattr(j.self, "ip_address")
          r == rtsp_reachable(got.value, DEFAULT_PORT, Listening(up2))
          joined == s.at \in {0, 81}
      IN  /\ w.cmds = wlan.cmds
          /\ (~j.ran \/ s.at \in {76, 77, 78}) => w = wlan
          /\ s.stop = "KeyboardInterrupt" => Len(interrupted) < MaxInterrupts
          /\ s.at = 81 => j.raised = ""
          /\ up2 # reachable => netChanges < MaxEnvChanges
          /\ reachable' = up2
          /\ netChanges' = IF up2 # reachable THEN netChanges + 1
                           ELSE netChanges
          /\ wlan' = w
          /\ prompts' = prompts + (IF s.at = 76 THEN 0
                                   ELSE IF s.at = 77 THEN 1 ELSE 2)
          /\ interrupted' = IF s.stop = "KeyboardInterrupt"
                            THEN Append(interrupted, "hotspot")
                            ELSE interrupted
          /\ IF joined
             THEN /\ luci' = j.self
                  /\ lastCall' = [NoCall EXCEPT !.op = "join_hotspot",
                                                !.raised = j.raised, !.msg = j.msg,
                                                !.pre_ip = h._ip_address,
                                                !.ran = j.ran, !.detect = j.detect,
                                                !.run = run]
             ELSE UNCHANGED <<luci, lastCall>>
          /\ IF s.stop # ""
             THEN /\ Abort(s.stop)
                  /\ ip' = ip70
                  /\ probes' = probed
                  /\ UNCHANGED <<saved, cacheFile>>
             ELSE IF j.raised # ""
             THEN /\ Abort(j.raised)
                  /\ ip' = ip70
                  /\ probes' = probed
                  /\ UNCHANGED <<saved, cacheFile>>
             ELSE IF got.raised # ""
             THEN /\ Abort(got.raised)
                  /\ ip' = ip70
                  /\ probes' = probed
                  /\ UNCHANGED <<saved, cacheFile>>
             ELSE /\ ip' = got.value
                  /\ probes' = IF Truthy(got.value)
                               THEN Append(probed, [ip |-> got.value,
                                                    ok |-> r.value])
                               ELSE probed
                  /\ IF Truthy(got.value) /\ r.raised # ""
                     THEN /\ Abort(r.raised)
                          /\ UNCHANGED <<saved, cacheFile>>
                     ELSE IF ~Truthy(got.value) \/ ~r.value
                     THEN /\ Abort("RTSP stream not reachable after hotspot connection")
                          /\ UNCHANGED <<saved, cacheFile>>
                     ELSE /\ saved' = Append(saved, got.value)
                          /\ cacheFile' = save_ip(got.value)
                          /\ pc' = "record"
                          /\ err' = err

\* lines 70-87
MainResolve ==
    /\ pc = "resolve"
    /\ LET got == getattr(luci, "ip_address")
           r == rtsp_reachable(got.value, DEFAULT_PORT, Listening(reachable))
       IN  IF got.raised # ""
           THEN /\ Abort(got.raised)
                /\ UNCHANGED <<ip, probes, saved, prompts, cacheFile, wlan,
                               luci, lastCall, interrupted, reachable,
                               netChanges>>
           ELSE IF Truthy(got.value) /\ r.raised # ""
           THEN /\ Abort(r.raised)
                /\ ip' = got.value
                /\ probes' = Append(probes, [ip |-> got.value, ok |-> FALSE])
                /\ UNCHANGED <<saved, prompts, cacheFile, wlan, luci,
                               lastCall, interrupted, reachable, netChanges>>
           ELSE IF Truthy(got.value) /\ r.value
           THEN /\ ip' = got.value
                /\ probes' = Append(probes, [ip |-> got.value, ok |-> TRUE])
                /\ saved' = Append(saved, got.value)
                /\ cacheFile' = save_ip(got.value)
                /\ pc' = "record"
                /\ UNCHANGED <<err, prompts, wlan, luci, lastCall,
                               interrupted, reachable, netChanges>>
           ELSE MainHotspot(luci, got.value,
                            IF Truthy(got.value)
                            THEN Append(probes, [ip |-> got.value, ok |-> FALSE])
                            ELSE probes)
    /\ UNCHANGED <<cached_ip, adbCalls, rtsp_url, starts, stops, calls,
                   adbList, cache0, guiVars>>

\* line 68: `return` at the end of the except clause
MainReturn ==
    /\ pc = "except"
    /\ pc' = "returned"
    /\ UNCHANGED <<cached_ip, ip, err, probes, saved, prompts, adbCalls,
                   rtsp_url, starts, stops, interrupted, envVars, luciVars,
                   guiVars>>

\* lines 92-100: the stream URL and RtspRecorder(rtsp_url, ...)
MainMakeRecorder ==
    /\ pc = "record"
    /\ rtsp_url' = RtspUrl(ip, DEFAULT_PORT, DEFAULT_PATH)
    /\ pc' = "start"
    /\ UNCHANGED <<cached_ip, ip, err, probes, saved, prompts, adbCalls,
                   starts, stops, interrupted, envVars, luciVars, guiVars>>

\* line 102: recorder.start()
MainStartRecorder ==
    /\ pc = "start"
    /\ starts' = starts + 1
    /\ pc' = "announce"
    /\ UNCHANGED <<cached_ip, ip, err, probes, saved, prompts, adbCalls,
                   rtsp_url, stops, interrupted, envVars, luciVars, guiVars>>

\* lines 103-104: the two prints between start() and the try block
MainAnnounce ==
    /\ pc = "announce"
    /\ pc' = "sleep"
    /\ UNCHANGED <<cached_ip, ip, err, probes, saved, prompts, adbCalls,
                   rtsp_url, starts, stops, interrupted, envVars, luciVars,
                   guiVars>>

\* lines 106-107: time.sleep(args.duration) runs to its end, or raises
\* at once; what it raises is no KeyboardInterrupt, so the finally block
\* runs with the exception in flight
MainSleep ==
    /\ pc = "sleep"
    /\ \E d \in Durations, now \in Uptimes :
         err' = sleep(d, now).msg
    /\ pc' = "finally"
    /\ UNCHANGED <<cached_ip, ip, probes, saved, prompts, adbCalls,
                   rtsp_url, starts, stops, interrupted, envVars, luciVars,
                   guiVars>>

\* lines 106-108: KeyboardInterrupt during time.sleep is caught and the
\* handler is entered
InterruptInSleep ==
    /\ pc = "sleep"
    /\ Len(interrupted) < MaxInterrupts
    /\ interrupted' = Append(interrupted, pc)
    /\ pc' = "handler"
    /\ UNCHANGED <<cached_ip, ip, err, probes, saved, prompts, adbCalls,
                   rtsp_url, starts, stops, envVars, luciVars, guiVars>>

\* line 109: the handler prints its warning; the finally block follows
MainHandler ==
    /\ pc = "handler"
    /\ pc' = "finally"
    /\ UNCHANGED <<cached_ip, ip, err, probes, saved, prompts, adbCalls,
                   rtsp_url, starts, stops, interrupted, envVars, luciVars,
                   guiVars>>

\* line 109: KeyboardInterrupt while the handler prints is raised inside
\* the except clause; the finally block runs with it in flight
InterruptInHandler ==
    /\ pc = "handler"
    /\ Len(interrupted) < MaxInterrupts
    /\ interrupted' = Append(interrupted, pc)
    /\ err' = "KeyboardInterrupt"
    /\ pc' = "finally"
    /\ UNCHANGED <<cached_ip, ip, probes, saved, prompts, adbCalls,
                   rtsp_url, starts, stops, envVars, luciVars, guiVars>>

\* KeyboardInterrupt where no handler is around it is not caught: anywhere in
\* lines 39-104 (the except clause of lines 61-68 included; at line 60 before
\* connect_via_adb is called, InterruptInAdb being the one during it) and in the
\* finally block, before recorder.stop() is called (line 111) or after it
\* has returned (lines 112-113); there it takes the place of an exception
\* in flight
InterruptOutsideTry ==
    /\ pc \in {"load", "cached", "cached_ok", "fallback", "except", "resolve",
               "record", "start", "announce", "finally", "stopped"}
    /\ Len(interrupted) < MaxInterrupts
    /\ interrupted' = Append(interrupted, pc)
    /\ Abort("KeyboardInterrupt")
    /\ UNCHANGED <<cached_ip, ip, probes, saved, prompts, adbCalls,
                   rtsp_url, starts, stops, envVars, luciVars, guiVars>>

\* line 111: recorder.stop()
MainFinally ==
    /\ pc = "finally"
    /\ stops' = stops + 1
    /\ pc' = "stopped"
    /\ UNCHANGED <<cached_ip, ip, err, probes, saved, prompts, adbCalls,
                   rtsp_url, starts, interrupted, envVars, luciVars, guiVars>>

\* lines 112-113: the two prints after stop(); then main ends, or the
\* exception in flight leaves it
MainExit ==
    /\ pc = "stopped"
    /\ pc' = IF err = "" THEN "done" ELSE "aborted"
    /\ UNCHANGED <<cached_ip, ip, err, probes, saved, prompts, adbCalls,
                   rtsp_url, starts, stops, interrupted, envVars, luciVars,
                   guiVars>>

-----------------------------------------------------------------------------
(* setup_connection/USB_connection/usb_adb_client.py                       *)
(* A remote path is the sequence of its components: "/" is <<>>,           *)
(* "/DCIM/clip.mp4" is <<"DCIM", "clip.mp4">>.                             *)

ROOT == <<>>

\* the device's files when the browser opens
FS0 ==
    { [path |-> <<"DCIM">>, dir |-> TRUE],
      [path |-> <<"DCIM", "clip.mp4">>, dir |-> FALSE],
      [path |-> <<"photo.jpg">>, dir |-> FALSE] }

\* files the user can pick in the upload dialog, by base name
LocalFiles == {"notes.txt"}

\* the order in which `ls -1` prints names
LsOrder == <<"DCIM", "clip.mp4", "notes.txt", "photo.jpg">>

Exists(files, p) == p = ROOT \/ \E e \in files : e.path = p

IsDirOnDevice(files, p) == p = ROOT \/ \E e \in files : e.path = p /\ e.dir

IsPrefix(p, q) == Len(p) <= Len(q) /\ SubSeq(q, 1, Len(p)) = p

\* How the bridge behaves during one handler: its first `good` shell calls
\* answer, every later one fails in the way `then` names: "empty" (adb exits
\* at once and prints nothing on stdout) or "raise" (_run_adb_command raises
\* RuntimeError: the 30 s timeout when adb is there, or adb cannot be
\* started at all, adb = FALSE)
Links ==
    { [good |-> 9, then |-> "empty", adb |-> TRUE],
      [good |-> 0, then |-> "empty", adb |-> TRUE],
      [good |-> 0, then |-> "raise", adb |-> TRUE],
      [good |-> 1, then |-> "empty", adb |-> TRUE],
      [good |-> 1, then |-> "raise", adb |-> TRUE],
      [good |-> 0, then |-> "raise", adb |-> FALSE] }

\* what subprocess.run(["adb", ..., "pull"/"push", ...]) can do: the process
\* was started and exited with rc, or it could not be started
AdbRuns(link) ==
    IF link.adb
    THEN {[started |-> TRUE, rc |-> 0], [started |-> TRUE, rc |-> 1]}
    ELSE {[started |-> FALSE, rc |-> 0]}

\* what the i-th shell call of a handler gets: "ok", "empty" or "raise"
_run_adb_command(link, i) == IF i <= link.good THEN "ok" ELSE link.then

RECURSIVE PathText(_)
\* a remote path as the device prints it
PathText(p) ==
    IF p = <<>> THEN ""
    ELSE PathText(SubSeq(p, 1, Len(p) - 1)) \o "/" \o p[Len(p)]

\* ADBLUCIConnection.list_files: the lines `ls -1 '<path>'` prints: the
\* names in a directory, the path itself for a file, nothing (the error
\* goes to stderr) for a path that does not exist
list_files(path, files, outcome) ==
    IF outcome # "ok" THEN <<>>
    ELSE IF IsDirOnDevice(files, path)
    THEN SelectSeq(LsOrder, LAMBDA n : Exists(files, Append(path, n)))
    ELSE IF Exists(files, path) THEN <<PathText(path)>>
    ELSE <<>>

\* ADBLUCIConnection.is_dir: "DIR" in out
is_dir(path, files, outcome) == outcome = "ok" /\ IsDirOnDevice(files, path)

\* ADBLUCIConnection.delete: rm -rf '<path>'
delete(path, files, outcome) ==
    IF outcome = "ok" THEN {e \in files : ~IsPrefix(path, e.path)} ELSE files

\* ADBLUCIConnection.push(src, f"{current_path}/") (lines 67-74):
\* subprocess.run is called directly, so when adb cannot be started its
\* FileNotFoundError leaves push; otherwise push returns returncode == 0,
\* and the file then exists in the directory
push(name, dir, files, run) ==
    IF ~run.started
    THEN [raised |-> "FileNotFoundError", ok |-> FALSE, files |-> files]
    ELSE [raised |-> "", ok |-> run.rc = 0,
          files |-> IF run.rc = 0 /\ IsDirOnDevice(files, dir)
                    THEN files \cup {[path |-> Append(dir, name),
                                      dir |-> FALSE]}
                    ELSE files]

\* ADBLUCIConnection.pull_file (lines 58-65): as push, and True only when
\* adb exited with 0 and dst exists
pull_file(run, dstExists) ==
    IF ~run.started
    THEN [raised |-> "FileNotFoundError", ok |-> FALSE]
    ELSE [raised |-> "", ok |-> run.rc = 0 /\ dstExists]

DefaultPreview == [image |-> NoneVal, text |-> "Select a file for preview"]

NoPreview == [image |-> NoneVal, text |-> "Preview unavailable"]

\* lower.endswith(...) on the names of the model
FileKind(name) ==
    IF name \in {"clip.mp4"} THEN "video"
    ELSE IF name \in {"photo.jpg"} THEN "image"
    ELSE "other"

\* what follows a successful pull in preview_file: the picture is decoded
\* ("ok"), ffmpeg wrote no thumbnail ("missing"), ffmpeg cannot be started
\* ("noffmpeg", subprocess.run raises), or Image.open rejects the file
\* ("badimage")
Makes == {"ok", "missing", "noffmpeg", "badimage"}

\* FileBrowserGUI.preview_file (lines 168-198) with its helpers
\* generate_mp4_thumbnail and pull_image: prev is what the label shows,
\* pull is what pull_file did, made what followed.  An exception leaves
\* the label as it was.
preview_file(path, prev, pull, made) ==
    LET kind == FileKind(path[Len(path)])
        shown == [raised |-> "", preview |-> [image |-> path, text |-> ""]]
        none == [raised |-> "", preview |-> NoPreview]
    IN  IF kind \notin {"video", "image"}
        THEN [raised |-> "", preview |-> DefaultPreview]
        ELSE IF pull.raised # ""
        THEN [raised |-> pull.raised, preview |-> prev]
        ELSE IF ~pull.ok THEN none
        ELSE IF kind = "video" /\ made = "noffmpeg"
        THEN [raised |-> "FileNotFoundError", preview |-> prev]
        ELSE IF kind = "video" /\ made = "missing" THEN none
        ELSE IF made = "badimage"
        THEN [raised |-> "UnidentifiedImageError", preview |-> prev]
        ELSE shown

\* FileBrowserGUI.refresh, entered when the handler has made `used` shell
\* calls: the rows inserted, whether the label was set (line 212 was
\* reached) and whether an exception left the handler
refresh(path, files, link, used) ==
    LET o == _run_adb_command(link, used + 1)
        names == list_files(path, files, o)
        bad == {i \in 1..Len(names) :
                    _run_adb_command(link, used + 1 + i) = "raise"}
        upto == IF bad = {} THEN Len(names)
                ELSE (CHOOSE i \in bad : \A j \in bad : i <= j) - 1
        row(i) ==
            LET full_path == Append(path, names[i])
            IN  [text |-> names[i], path |-> full_path,
                 tag |-> IF is_dir(full_path, files,
                                   _run_adb_command(link, used + 1 + i))
                         THEN "dir" ELSE "file"]
    IN  IF o = "raise"
        THEN [raised |-> TRUE, tree |-> <<>>, label |-> FALSE]
        ELSE [raised |-> bad # {}, tree |-> [i \in 1..upto |-> row(i)],
              label |-> bad = {}]

NoOp ==
    [op |-> "", asked |-> NoneVal, answer |-> FALSE, deleted |-> NoneVal,
     refreshed |-> FALSE, transfer |-> "none", dialog |-> "", raised |-> ""]

\* the widgets after refresh() ran for the directory d with the files as
\* they are after the handler
Refreshed(d, files, link, used) ==
    LET r == refresh(d, files, link, used)
    IN  /\ tree' = r.tree
        /\ selection' = 0
        /\ path_label' = IF r.label THEN d ELSE path_label

\* what a handler that previews or downloads can meet: what adb pull did,
\* whether dst exists afterwards (only a pull that exited with 0 writes it)
\* and, after a successful pull, what followed
PullEnvs(link) ==
    {e \in [run : AdbRuns(link), dstExists : BOOLEAN, made : Makes] :
        /\ e.dstExists => (e.run.started /\ e.run.rc = 0)
        /\ e.made # "ok" => e.dstExists}

\* the user changes the selection: <<TreeviewSelect>> runs on_select (lines
\* 228-234); i = 0 is a click that leaves no row selected
GuiSelect ==
    /\ UNCHANGED <<envVars, luciVars, mainVars, confirmed>>
    /\ \E i \in 0..Len(tree), adb \in BOOLEAN :
       \E e \in PullEnvs([adb |-> adb]) :
      /\ selection' = i
      /\ IF i = 0
         THEN /\ preview' = preview
              /\ lastOp' = [NoOp EXCEPT !.op = "on_select"]
         ELSE LET r == preview_file(tree[i].path, preview,
                                    pull_file(e.run, e.dstExists), e.made)
              IN  /\ preview' = r.preview
                  /\ lastOp' = [NoOp EXCEPT !.op = "on_select",
                                            !.raised = r.raised]
      /\ UNCHANGED <<fs, current_path, path_label, tree>>

\* lines 214-226
GuiDoubleClick ==
    /\ UNCHANGED <<envVars, luciVars, mainVars, confirmed>>
    /\ \E link \in Links :
       \E e \in PullEnvs(link) :
      IF selection = 0
      THEN /\ lastOp' = [NoOp EXCEPT !.op = "on_double_click"]
           /\ UNCHANGED <<fs, current_path, path_label, tree, selection,
                          preview>>
      ELSE IF _run_adb_command(link, 1) = "raise"
      THEN /\ lastOp' = [NoOp EXCEPT !.op = "on_double_click",
                                     !.raised = "RuntimeError"]
           /\ UNCHANGED <<fs, current_path, path_label, tree, selection,
                          preview>>
      ELSE LET full_path == tree[selection].path
               r == preview_file(full_path, preview,
                                 pull_file(e.run, e.dstExists), e.made)
               f == refresh(full_path, fs, link, 1)
           IN  IF is_dir(full_path, fs, _run_adb_command(link, 1))
               THEN /\ current_path' = full_path
                    /\ preview' = DefaultPreview
                    /\ Refreshed(full_path, fs, link, 1)
                    /\ lastOp' = [NoOp EXCEPT
                         !.op = "on_double_click", !.refreshed = TRUE,
                         !.raised = IF f.raised THEN "RuntimeError" ELSE ""]
                    /\ UNCHANGED fs
               ELSE /\ preview' = r.preview
                    /\ lastOp' = [NoOp EXCEPT !.op = "on_double_click",
                                              !.raised = r.raised]
                    /\ UNCHANGED <<fs, current_path, path_label, tree,
                                   selection>>

\* "/".join(current_path.rstrip("/").split("/")[:-1]) or "/"
Parent(p) == SubSeq(p, 1, Len(p) - 1)

\* lines 236-241
GuiGoUp ==
    /\ UNCHANGED <<envVars, luciVars, mainVars, confirmed>>
    /\ \E link \in Links :
      /\ lastOp' = [NoOp EXCEPT
           !.op = "go_up", !.refreshed = current_path # ROOT,
           !.raised = IF current_path # ROOT
                         /\ refresh(Parent(current_path), fs, link, 0).raised
                      THEN "RuntimeError" ELSE ""]
      /\ IF current_path = ROOT
         THEN UNCHANGED <<fs, current_path, path_label, tree, selection, preview>>
         ELSE /\ current_path' = Parent(current_path)
              /\ preview' = DefaultPreview
              /\ Refreshed(Parent(current_path), fs, link, 0)
              /\ UNCHANGED fs

\* the Refresh button: lines 203-212
GuiRefresh ==
    /\ UNCHANGED <<envVars, luciVars, mainVars, confirmed>>
    /\ \E link \in Links :
      /\ lastOp' = [NoOp EXCEPT
           !.op = "refresh", !.refreshed = TRUE,
           !.raised = IF refresh(current_path, fs, link, 0).raised
                      THEN "RuntimeError" ELSE ""]
      /\ Refreshed(current_path, fs, link, 0)
      /\ UNCHANGED <<fs, current_path, preview>>

\* upload_file (lines 246-254): an exception out of push leaves the handler
\* before any dialog and before refresh(); otherwise the dialog tells the
\* result and refresh() follows
GuiUpload ==
    /\ UNCHANGED <<envVars, luciVars, mainVars, confirmed>>
    /\ \E filepath \in LocalFiles \cup {""}, link \in Links :
       \E run \in AdbRuns(link) :
      IF filepath = ""
      THEN /\ lastOp' = [NoOp EXCEPT !.op = "upload_file"]
           /\ UNCHANGED <<fs, current_path, path_label, tree, selection, preview>>
      ELSE LET p == push(filepath, current_path, fs, run)
               f == refresh(current_path, p.files, link, 0)
           IN  IF p.raised # ""
               THEN /\ lastOp' = [NoOp EXCEPT !.op = "upload_file",
                                              !.transfer = "failed",
                                              !.raised = p.raised]
                    /\ UNCHANGED <<fs, current_path, path_label, tree,
                                   selection, preview>>
               ELSE /\ fs' = p.files
                    /\ lastOp' = [NoOp EXCEPT
                         !.op = "upload_file", !.refreshed = TRUE,
                         !.transfer = IF p.ok THEN "ok" ELSE "failed",
                         !.dialog = IF p.ok THEN "showinfo: Upload successful"
                                    ELSE "showerror: Upload failed",
                         !.raised = IF f.raised THEN "RuntimeError" ELSE ""]
                    /\ Refreshed(current_path, p.files, link, 0)
                    /\ UNCHANGED <<current_path, preview>>

\* download_file (lines 256-270): an exception out of pull_file leaves the
\* handler before any dialog
GuiDownload ==
    /\ UNCHANGED <<envVars, luciVars, mainVars, confirmed>>
    /\ \E savepath \in {"", "/home/user/saved"}, adb \in BOOLEAN :
       \E e \in PullEnvs([adb |-> adb]) :
      LET p == pull_file(e.run, e.dstExists)
      IN  /\ IF selection = 0 \/ savepath = ""
             THEN lastOp' = [NoOp EXCEPT !.op = "download_file"]
             ELSE IF p.raised # ""
             THEN lastOp' = [NoOp EXCEPT !.op = "download_file",
                                         !.transfer = "failed",
                                         !.raised = p.raised]
             ELSE lastOp' = [NoOp EXCEPT
                    !.op = "download_file",
                    !.transfer = IF p.ok THEN "ok" ELSE "failed",
                    !.dialog = IF p.ok THEN "showinfo: Download successful"
                               ELSE "showerror: Download failed"]
          /\ UNCHANGED <<fs, current_path, path_label, tree, selection,
                         preview>>

\* delete_item deleting whatever the confirmation dialog returned
GuiDeleteMut ==
    /\ UNCHANGED <<envVars, luciVars, mainVars>>
    /\ \E answer \in BOOLEAN, link \in Links :
      IF selection = 0
      THEN /\ lastOp' = [NoOp EXCEPT !.op = "delete_item"]
           /\ UNCHANGED <<fs, current_path, path_label, tree, selection, preview,
                          confirmed>>
      ELSE LET full_path == tree[selection].path
               o == _run_adb_command(link, 1)
               files == delete(full_path, fs, o)
           IN  /\ lastOp' = [NoOp EXCEPT !.op = "delete_item",
                                         !.asked = full_path,
                                         !.answer = answer,
                                         !.deleted = full_path,
                                         !.refreshed = o # "raise",
                                         !.raised =
                                           IF o = "raise"
                                              \/ refresh(current_path, files, link, 1).raised
                                           THEN "RuntimeError" ELSE ""]
               /\ confirmed' = IF answer THEN confirmed \cup {full_path}
                               ELSE confirmed
               /\ fs' = files
               /\ IF o = "raise"
                  THEN UNCHANGED <<path_label, tree, selection>>
                  ELSE Refreshed(current_path, files, link, 1)
               /\ UNCHANGED <<current_path, preview>>

\* lines 272-281
GuiDelete ==
    /\ UNCHANGED <<envVars, luciVars, mainVars>>
    /\ \E answer \in BOOLEAN, link \in Links :
      IF selection = 0
      THEN /\ lastOp' = [NoOp EXCEPT !.op = "delete_item"]
           /\ UNCHANGED <<fs, current_path, path_label, tree, selection, preview,
                          confirmed>>
      ELSE LET full_path == tree[selection].path
               o == _run_adb_command(link, 1)
               files == delete(full_path, fs, o)
           IN  IF ~answer
               THEN /\ lastOp' = [NoOp EXCEPT !.op = "delete_item",
                                              !.asked = full_path]
                    /\ UNCHANGED <<fs, current_path, path_label, tree,
                                   selection, preview, confirmed>>
               ELSE /\ lastOp' = [NoOp EXCEPT !.op = "delete_item",
                                              !.asked = full_path,
                                              !.answer = TRUE,
                                              !.deleted = full_path,
                                              !.refreshed = o # "raise",
                                              !.raised =
                                                IF o = "raise"
                                                   \/ refresh(current_path, files, link, 1).raised
                                                THEN "RuntimeError" ELSE ""]
                    /\ confirmed' = confirmed \cup {full_path}
                    /\ fs' = files
                    /\ IF o = "raise"
                       THEN UNCHANGED <<path_label, tree, selection>>
                       ELSE Refreshed(current_path, files, link, 1)
                    /\ UNCHANGED <<current_path, preview>>

-----------------------------------------------------------------------------
(* The record script's connection sequence                                 *)

RecordStages ==
    {"record", "start", "announce", "sleep", "handler", "finally", "stopped",
     "done"}

\* adb lists no device it can talk to (or there is no adb program to ask)
NoDeviceListed ==
    adbList = NoAdb \/ \A k \in 1..Len(adbList) : adbList[k].state # StateDevice

CacheMiss ==
    \/ ~Truthy(load_ip(cache0))
    \/ ~rtsp_reachable(load_ip(cache0), DEFAULT_PORT,
                       Listening(reachable)).value

\* C1: once load_ip has returned a non-empty cached IP and the probe of it
\* has returned true, bridge discovery is never invoked in the run, and the
\* run goes on to record against exactly the cached IP: it takes the cached
\* IP as its IP (line 50), starts the recorder once on
\* rtsp://<cached ip>:50001/live/0 and stops it once, and nothing but a
\* KeyboardInterrupt or an exception of the wait itself ends it otherwise.
C1_CachedIpSkipsDiscovery ==
    (Truthy(cached_ip) /\ probes # <<>>
        /\ probes[1] = [ip |-> cached_ip, ok |-> TRUE])
    => /\ adbCalls = 0
       /\ luci = NoLuci
       /\ Len(probes) = 1
       /\ pc \in RecordStages \cup {"cached_ok", "fallback", "aborted"}
       /\ ip = IF pc = "cached_ok"
                  \/ (interrupted # <<>> /\ interrupted[1] = "cached_ok")
               THEN NoneVal ELSE cached_ip
       /\ (pc = "aborted" => err \in {"KeyboardInterrupt"} \cup SleepErrors)
       /\ (err \in SleepErrors => starts = 1)
       /\ (starts > 0 =>
             rtsp_url = RtspUrl(cached_ip, DEFAULT_PORT, DEFAULT_PATH))
       /\ (pc \in Terminal /\ interrupted = <<>>)
          => /\ starts = 1 /\ stops = 1
             /\ pc = IF err = "" THEN "done" ELSE "aborted"

C1_Witness ==
    /\ pc = "done"
    /\ cache0 = IP_B \o <<"\n">>
    /\ cached_ip = IP_B
    /\ probes = <<[ip |-> IP_B, ok |-> TRUE]>>
    /\ adbCalls = 0
    /\ adbList # <<>>
    /\ rtsp_url = <<"r","t","s","p",":","/","/","1","0",".","0",".","0",".",
                    "7",":","5","0","0","0","1","/","l","i","v","e","/","0">>

\* C2: with no cached IP and no device in state 'device', the run never
\* prompts for hotspot credentials, never writes the cache and never starts
\* the recorder; when connect_via_adb raises RuntimeError (adb answered and
\* listed no such device) the run ends with the discovery error, and when
\* adb could not be run at all it ends with that FileNotFoundError.
C2_NoCacheNoDevice ==
    (~Truthy(load_ip(cache0)) /\ NoDeviceListed)
    => /\ prompts = 0
       /\ saved = <<>>
       /\ cacheFile = cache0
       /\ starts = 0
       /\ luci = NoLuci
       /\ (pc \in Terminal /\ interrupted = <<>> /\ adbList # NoAdb
             => /\ pc = "returned"
                /\ adbCalls = 1
                /\ lastCall.raised = "RuntimeError"
                /\ err = "No LUCI Pin detected via ADB")
       /\ (pc \in Terminal /\ interrupted = <<>> /\ adbList = NoAdb
             => /\ pc = "aborted"
                /\ adbCalls = 1
                /\ err = "FileNotFoundError")

C2_Witness ==
    /\ pc = "returned"
    /\ cache0 = <<"\n">>
    /\ adbList = <<Dev(ABC123, StateOffline)>>
    /\ err = "No LUCI Pin detected via ADB"
    /\ adbCalls = 1

\* C3: on a cache miss, when discovery finds a device and the
\* device-reported IP answers the probe, the run saves exactly that IP to the
\* cache (one save_ip call), shows no hotspot prompt and reports no error.
C3_AdbIpPersisted ==
    (pc \in Terminal /\ interrupted = <<>> /\ netChanges = 0
        /\ CacheMiss /\ ~NoDeviceListed
        /\ wlan.addr # NoneVal /\ wlan.addr \in reachable)
    => /\ saved = <<wlan.addr>>
       /\ cacheFile = wlan.addr
       /\ prompts = 0
       /\ err = ""

\* C5: recorder.stop() is invoked exactly once for every recorder.start() on
\* every exit path after start, a KeyboardInterrupt at any point after start()
\* has returned included; an interrupt during the wait is a clean stop.
C5_StopOncePerStart ==
    /\ stops <= starts
    /\ (pc \in Terminal /\ starts = 1) => stops = 1
    /\ (pc \in Terminal /\ interrupted = <<"sleep">>) => (pc = "done" /\ err = "")

\* C11: recorder.start() is reached only with a non-empty IP for which
\* rtsp_reachable(ip, 50001) returned true earlier in the same run, the
\* stream URL handed to the recorder is exactly rtsp://<that ip>:50001/live/0,
\* and no run that has failed before the recording (discovery failure, join
\* failure, post-join unreachable, missing attribute, a probe that raised)
\* has started or goes on to start the recorder; the only failures of a run
\* that has started it are those of the wait.
C11_StartOnlyWithProbedIp ==
    /\ (pc \in {"record", "start"} \/ starts > 0)
       => /\ Truthy(ip)
          /\ \E k \in 1..Len(probes) : probes[k] = [ip |-> ip, ok |-> TRUE]
    /\ starts > 0
       => rtsp_url = <<"r","t","s","p",":","/","/">> \o ip
                     \o <<":","5","0","0","0","1","/","l","i","v","e","/","0">>
    /\ starts <= 1
    /\ (pc = "returned" \/ err \notin {"", "KeyboardInterrupt"} \cup SleepErrors)
       => (starts = 0 /\ pc \in {"except", "returned", "aborted"})
    /\ err \in SleepErrors => (starts = 1 /\ pc \in {"finally", "stopped", "aborted"})
    /\ lastCall.raised # "" => starts = 0

\* the recorder was started for the cached address A after its probe had
\* answered, although the address stopped answering before start()
C11_Witness ==
    /\ starts = 1
    /\ pc = "announce"
    /\ ip = IP_A
    /\ probes = <<[ip |-> IP_A, ok |-> TRUE]>>
    /\ IP_A \notin reachable
    /\ netChanges > 0
    /\ rtsp_url = RtspUrl(IP_A, DEFAULT_PORT, DEFAULT_PATH)

-----------------------------------------------------------------------------
(* The LUCI handle                                                         *)

\* C7: for a device that holds address A.B.C.D and answers in any of the
\* three formats, _detect_ip returns exactly A.B.C.D, and
\* DeviceAPI.ip_address returns A.B.C.D from the `ip addr show` format.
C7_SameDottedQuad ==
    /\ (lastCall.op = "join_hotspot" /\ lastCall.detect
            /\ lastCall.raised = "" /\ Attached(luci.device_id, adbList)
            /\ wlan.addr # NoneVal /\ wlan.cmds # {})
       => lastCall.ret = wlan.addr
    /\ (lastCall.op = "device.ip_address"
            /\ lastCall.raised = "" /\ Attached(luci.device_id, adbList)
            /\ wlan.addr # NoneVal /\ CMD_IP_ADDR \in wlan.cmds)
       => lastCall.ret = wlan.addr

-----------------------------------------------------------------------------
(* The file browser                                                        *)

\* C6: the delete command is issued for a path only in a delete_item action
\* in which the user was asked about exactly that path and answered yes;
\* with no selection or a negative answer nothing is deleted and the listing
\* is not refreshed.
C6_DeleteOnlyAfterConfirmation ==
    /\ lastOp.deleted # NoneVal
       => /\ lastOp.op = "delete_item"
          /\ lastOp.asked = lastOp.deleted
          /\ lastOp.answer
    /\ (lastOp.op = "delete_item" /\ (lastOp.asked = NoneVal \/ ~lastOp.answer))
       => /\ lastOp.deleted = NoneVal
          /\ ~lastOp.refreshed
    /\ \A e \in FS0 \ fs : \E d \in confirmed : IsPrefix(d, e.path)

C6_Witness ==
    /\ lastOp.op = "delete_item"
    /\ lastOp.asked = <<"DCIM">>
    /\ lastOp.deleted = <<"DCIM">>
    /\ lastOp.answer
    /\ [path |-> <<"DCIM", "clip.mp4">>, dir |-> FALSE] \notin fs
    /\ [path |-> <<"photo.jpg">>, dir |-> FALSE] \in fs

\* the handler made a transfer that did not succeed: push or pull_file
\* returned False or raised
FailedTransfer(op) == op.transfer = "failed"

\* C10: a failed upload or download is reported with an error dialog and
\* changes neither current_path nor the path label nor the preview.
C10_FailedTransferChangesNothing ==
    [][FailedTransfer(lastOp')
        => /\ lastOp'.dialog \in {"showerror: Upload failed",
                                   "showerror: Download failed"}
           /\ current_path' = current_path
           /\ path_label' = path_label
           /\ preview' = preview]_vars

-----------------------------------------------------------------------------
(* Specifications                                                          *)

MainIdle ==
    /\ pc = "idle" /\ cached_ip = NoneVal /\ ip = NoneVal /\ err = ""
    /\ probes = <<>> /\ saved = <<>> /\ prompts = 0 /\ adbCalls = 0
    /\ rtsp_url = <<>> /\ starts = 0 /\ stops = 0 /\ interrupted = <<>>

GuiIdle ==
    /\ fs = {} /\ current_path = <<>> /\ path_label = <<>> /\ tree = <<>>
    /\ selection = 0 /\ preview = DefaultPreview /\ lastOp = NoOp
    /\ confirmed = {}

\* one run of the record script, from the top of main
InitRecord ==
    /\ adbList \in AdbLists
    /\ wlan \in {w \in WlanStates :
                    w.prefix = <<"2","4">> /\ Cardinality(w.cmds) = 3}
    /\ reachable \in SUBSET Addrs
    /\ cacheFile \in CacheFiles
    /\ cache0 = cacheFile
    /\ netChanges = 0
    /\ luci = NoLuci /\ lastCall = NoCall /\ calls = 0
    /\ pc = "load" /\ cached_ip = NoneVal /\ ip = NoneVal /\ err = ""
    /\ probes = <<>> /\ saved = <<>> /\ prompts = 0 /\ adbCalls = 0
    /\ rtsp_url = <<>> /\ starts = 0 /\ stops = 0 /\ interrupted = <<>>
    /\ GuiIdle

NextRecord ==
    \/ MainLoadCache
    \/ MainTryCached
    \/ MainUseCached
    \/ MainTryAdb
    \/ InterruptInAdb
    \/ MainReturn
    \/ MainResolve
    \/ MainMakeRecorder
    \/ MainStartRecorder
    \/ MainAnnounce
    \/ MainSleep
    \/ InterruptInSleep
    \/ MainHandler
    \/ InterruptInHandler
    \/ InterruptOutsideTry
    \/ MainFinally
    \/ MainExit
    \/ EnvReach

SpecRecord == InitRecord /\ [][NextRecord]_vars

\* a program holding a LUCI handle
InitLuci ==
    /\ adbList \in AdbLists
    /\ wlan \in WlanStates
    /\ reachable = {} /\ cacheFile = NoFile /\ cache0 = NoFile
    /\ netChanges = 0
    /\ luci = NoLuci /\ lastCall = NoCall /\ calls = 0
    /\ MainIdle
    /\ GuiIdle

NextLuci ==
    \/ LuciNew
    \/ LuciConnect
    \/ LuciJoinHotspot
    \/ LuciDeviceIp
    \/ LuciViewStream

SpecLuci == InitLuci /\ [][NextLuci]_vars

EnvIdle ==
    /\ adbList = <<Dev(ABC123, StateDevice)>>
    /\ wlan = [addr |-> NoneVal, prefix |-> <<"2","4">>, cmds |-> {}]
    /\ reachable = {} /\ cacheFile = NoFile /\ cache0 = NoFile
    /\ netChanges = 0
    /\ luci = NoLuci /\ lastCall = NoCall /\ calls = 0

\* the file browser once FileBrowserGUI.__init__ has returned (lines 84-119)
InitBrowser ==
    /\ fs = FS0
    /\ current_path = ROOT
    /\ path_label = ROOT
    /\ preview = DefaultPreview
    /\ selection = 0
    /\ lastOp = NoOp
    /\ confirmed = {}
    /\ \E link \in Links :
         LET r == refresh(ROOT, FS0, link, 0)
         IN  ~r.raised /\ tree = r.tree
    /\ EnvIdle
    /\ MainIdle

NextBrowser ==
    \/ GuiSelect
    \/ GuiDoubleClick
    \/ GuiGoUp
    \/ GuiRefresh
    \/ GuiUpload
    \/ GuiDownload
    \/ GuiDelete

SpecBrowser == InitBrowser /\ [][NextBrowser]_vars
====
